---- MODULE Spec2Model ----
(***************************************************************************)
(* Client-side session orchestration of AskMyVideo                         *)
(* (frontend/youtube_chat/app/page.tsx).  The file holds two page          *)
(* components: the session variant (YouTube URL, /prepare and /ask) and    *)
(* the document variant (upload, /upload and /chat).  One of them is       *)
(* mounted; `variant` says which.                                          *)
(*                                                                         *)
(* A text is a sequence of lexical units; WS is the whitespace unit that   *)
(* String.prototype.trim removes.  A nullable value is a set with at most  *)
(* one element: Null is {} and Some(x) is {x}.                             *)
(***************************************************************************)
EXTENDS Integers, Sequences, FiniteSets, TLC

\* ---------------------------------------------------------------- bounds
MaxInFlight == 2
MaxTurns == 3
MaxFileInputKey == 2

\* ------------------------------------------------------- nullable values
Null == {}
Some(x) == {x}
Unwrap(o) == CHOOSE x \in o : TRUE
Coalesce(o, dflt) == IF o = Null THEN dflt ELSE Unwrap(o)

\* ------------------------------------------------------------------ text
WS == " "
Empty == << >>
Truthy(t) == Len(t) > 0
OrElse(t, fallback) == IF Truthy(t) THEN t ELSE fallback

RECURSIVE TrimStart(_)
TrimStart(t) ==
  IF Len(t) = 0 THEN t
  ELSE IF Head(t) = WS THEN TrimStart(Tail(t)) ELSE t

RECURSIVE TrimEnd(_)
TrimEnd(t) ==
  IF Len(t) = 0 THEN t
  ELSE IF t[Len(t)] = WS THEN TrimEnd(SubSeq(t, 1, Len(t) - 1)) ELSE t

Trim(t) == TrimEnd(TrimStart(t))

\* ------------------------------------------------- user-visible messages
PasteUrlFirstMsg == <<"Paste a YouTube URL first.">>
EnterBothMsg == <<"Enter both the URL and a question.">>
IndexingMsg == <<"Indexing video...">>
VideoReadyMsg == <<"Video ready. Ask away!">>
ThinkingMsg == <<"Thinking...">>
RequestFailedMsg == <<"Request failed.">>
SelectPdfMsg == <<"Select a PDF file first.">>
SelectTxtMsg == <<"Select a TXT file first.">>
PasteTextMsg == <<"Paste some text before uploading.">>
UploadingMsg == <<"Uploading and indexing...">>
UploadFailedMsg == <<"Upload failed.">>
DocumentReadyMsg == <<"Document ready. Start chatting!">>
UploadFirstMsg == <<"Upload a document before chatting.">>
TypeQuestionMsg == <<"Type a question first.">>
ChatFailedMsg == <<"Chat request failed.">>
NoResponseMsg == <<"I wasn't able to craft a response.">>
\* the warning sign and the space that open a failed answer
WarnPrefix == <<"!!", WS>>
\* message of the TypeError a rejected fetch() carries
NetworkErrorMsg == <<"Failed to fetch">>
\* message of the SyntaxError a rejected response.json() carries
JsonErrorMsg == <<"Unexpected end of JSON input">>

\* ------------------------------------------------ inputs and responses
Urls == {Empty, <<"u">>}
Questions == {Empty, <<WS>>, <<WS, "b", WS>>}
PlainTexts == {Empty, <<WS, "t">>}
Files == {<<"f">>}
SourceTypes == {"pdf", "txt", "text"}
\* the backend names every ingestion afresh: DocIdSeq[n] is the document_id
\* of the n-th ingestion it completes for this page
DocIdSeq == << <<"d1">>, <<"d2">>, <<"d3">>, <<"d4">>, <<"d5">>, <<"d6">> >>
DocIds == {DocIdSeq[n] : n \in 1..Len(DocIdSeq)}
ErrorBodies == {Empty, <<"e">>}
Answers == {Null, Some(<<"A", WS>>)}
SourceLists == {Null, Some(<< <<"s">> >>)}

VARIABLES variant, yt, doc, calls

vars == <<variant, yt, doc, calls>>

\* ----------------------------------------------------------- page state
\* useState initial values of the session page
YtInit ==
  [youtubeUrl |-> Empty, question |-> Empty, answer |-> Empty,
   sources |-> << >>, status |-> Empty, error |-> Empty, loading |-> "null"]

\* useState initial values of the document page
DocInit ==
  [sourceType |-> "pdf", pdfFile |-> Null, txtFile |-> Null,
   plainText |-> Empty, documentId |-> Null, messages |-> << >>,
   question |-> Empty, uploadStatus |-> Empty, chatStatus |-> Empty,
   error |-> Null, isUploading |-> FALSE, isSending |-> FALSE,
   fileInputKey |-> 0]

Init ==
  /\ variant \in {"session", "document"}
  /\ yt = YtInit
  /\ doc = DocInit
  /\ calls = << >>

\* ------------------------------------------------- outstanding requests
\* calls holds the handler invocations suspended at their await, oldest
\* first, each with the request it sent.  Nothing is written between the
\* await of fetch() and the await of the body, so the two resolve in one step.
RemoveAt(s, i) == SubSeq(s, 1, i - 1) \o SubSeq(s, i + 1, Len(s))

CountIn(cs, k) == Cardinality({i \in 1..Len(cs) : cs[i].kind = k})

Outstanding(k) == CountIn(calls, k)

Idx == 1..Len(calls)

\* --------------------------------------------- session page: /prepare
prepareVideoBegin(s) ==
  [s EXCEPT !.loading = "index", !.status = IndexingMsg, !.error = Empty]

prepareVideoThen(s) == [s EXCEPT !.status = VideoReadyMsg, !.loading = "null"]

\* prepareVideoCatch without setStatus("")
prepareVideoCatch_KeepsStatus(s, msg) ==
  [s EXCEPT !.error = msg, !.loading = "null"]

prepareVideoCatch(s, msg) ==
  [s EXCEPT !.status = Empty, !.error = msg, !.loading = "null"]

prepareVideo ==
  /\ variant = "session"
  /\ UNCHANGED <<variant, doc>>
  /\ IF ~Truthy(yt.youtubeUrl)
       THEN /\ yt' = [yt EXCEPT !.error = PasteUrlFirstMsg]
            /\ UNCHANGED calls
       ELSE /\ Len(calls) < MaxInFlight
            /\ yt' = prepareVideoBegin(yt)
            /\ calls' = Append(calls,
                 [kind |-> "prepare", body |-> [youtube_url |-> yt.youtubeUrl]])

\* ------------------------------------------------- session page: /ask
askVideoQuestionBegin(s) ==
  [s EXCEPT !.loading = "ask", !.status = ThinkingMsg, !.error = Empty]

\* askVideoQuestionThen that keeps the answer on display when the response
\* has none
askVideoQuestionThen_KeepsAnswer(s, data) ==
  [s EXCEPT !.answer = Coalesce(data.answer, s.answer),
            !.sources = Coalesce(data.sources, << >>),
            !.status = Empty, !.loading = "null"]

askVideoQuestionThen(s, data) ==
  [s EXCEPT !.answer = Coalesce(data.answer, Empty),
            !.sources = Coalesce(data.sources, << >>),
            !.status = Empty, !.loading = "null"]

askVideoQuestionCatch(s, msg) ==
  [s EXCEPT !.answer = Empty, !.sources = << >>, !.status = Empty,
            !.error = msg, !.loading = "null"]

AskValid(s) == Truthy(s.youtubeUrl) /\ Truthy(s.question)

askVideoQuestion ==
  /\ variant = "session"
  /\ UNCHANGED <<variant, doc>>
  /\ IF ~AskValid(yt)
       THEN /\ yt' = [yt EXCEPT !.error = EnterBothMsg]
            /\ UNCHANGED calls
       ELSE /\ Len(calls) < MaxInFlight
            /\ yt' = askVideoQuestionBegin(yt)
            /\ calls' = Append(calls,
                 [kind |-> "ask", body |-> [youtube_url |-> yt.youtubeUrl,
                            question |-> yt.question]])

\* session page inputs (onChange)
setYoutubeUrl(u) ==
  /\ variant = "session"
  /\ yt' = [yt EXCEPT !.youtubeUrl = u]
  /\ UNCHANGED <<variant, doc, calls>>

setQuestionYt(q) ==
  /\ variant = "session"
  /\ yt' = [yt EXCEPT !.question = q]
  /\ UNCHANGED <<variant, doc, calls>>

\* the buttons' disabled attributes
PrepareEnabled == yt.loading # "index"
AskEnabled == yt.loading # "ask"

\* ------------------------------------------------------- document page
hasActiveDocument(d) == d.documentId # Null /\ Truthy(Unwrap(d.documentId))

resetFileInputs(d) ==
  [d EXCEPT !.pdfFile = Null, !.txtFile = Null, !.plainText = Empty,
            !.fileInputKey = d.fileInputKey + 1]

\* validation message of handleUpload, Null when the active tab is staged
UploadValidation(d) ==
  IF d.sourceType = "pdf"
    THEN (IF d.pdfFile = Null THEN Some(SelectPdfMsg) ELSE Null)
  ELSE IF d.sourceType = "txt"
    THEN (IF d.txtFile = Null THEN Some(SelectTxtMsg) ELSE Null)
  ELSE (IF ~Truthy(Trim(d.plainText)) THEN Some(PasteTextMsg) ELSE Null)

\* UploadFormData that submits whatever is staged in any tab
UploadFormData_AllStaged(d) ==
  {<<"pdf_file", f>> : f \in d.pdfFile}
    \cup {<<"txt_file", f>> : f \in d.txtFile}
    \cup (IF Truthy(Trim(d.plainText))
            THEN {<<"plain_text", Trim(d.plainText)>>} ELSE {})

\* the FormData handleUpload builds: a set of <<field, value>> entries
UploadFormData(d) ==
  IF d.sourceType = "pdf" THEN {<<"pdf_file", Unwrap(d.pdfFile)>>}
  ELSE IF d.sourceType = "txt" THEN {<<"txt_file", Unwrap(d.txtFile)>>}
  ELSE {<<"plain_text", Trim(d.plainText)>>}

\* handleUploadBegin without setIsUploading(true)
handleUploadBegin_NoFlag(d) ==
  [d EXCEPT !.error = Null, !.uploadStatus = UploadingMsg]

handleUploadBegin(d) ==
  [d EXCEPT !.error = Null, !.isUploading = TRUE, !.uploadStatus = UploadingMsg]

\* handleUploadThen without setMessages([])
handleUploadThen_KeepsTranscript(d, data) ==
  [resetFileInputs(d) EXCEPT
     !.documentId = Some(data.document_id),
     !.question = Empty, !.uploadStatus = DocumentReadyMsg,
     !.isUploading = FALSE]

handleUploadThen(d, data) ==
  [resetFileInputs(d) EXCEPT
     !.documentId = Some(data.document_id), !.messages = << >>,
     !.question = Empty, !.uploadStatus = DocumentReadyMsg,
     !.isUploading = FALSE]

\* handleUploadCatch that also forgets the document
handleUploadCatch_DropsIdentity(d, msg) ==
  [d EXCEPT !.uploadStatus = Empty, !.error = Some(msg),
            !.isUploading = FALSE, !.documentId = Null]

\* handleUploadCatch that also resets the staged inputs
handleUploadCatch_ResetsInputs(d, msg) ==
  [resetFileInputs(d) EXCEPT
     !.uploadStatus = Empty, !.error = Some(msg), !.isUploading = FALSE]

handleUploadCatch(d, msg) ==
  [d EXCEPT !.uploadStatus = Empty, !.error = Some(msg), !.isUploading = FALSE]

handleUpload ==
  /\ variant = "document"
  /\ UNCHANGED <<variant, yt>>
  /\ IF UploadValidation(doc) # Null
       THEN /\ doc' = [doc EXCEPT !.error = UploadValidation(doc),
                                  !.uploadStatus = Empty]
            /\ UNCHANGED calls
       ELSE /\ Len(calls) < MaxInFlight
            /\ doc.fileInputKey + Outstanding("upload") < MaxFileInputKey
            /\ doc' = handleUploadBegin(doc)
            /\ calls' = Append(calls,
                 [kind |-> "upload", body |-> UploadFormData(doc)])

\* A fresh token, unique among the Turns on display: the least number that
\* is the id of none of them stands for the random UUID.
generateId(ms) ==
  CHOOSE n \in 0..Len(ms) :
    /\ \A i \in 1..Len(ms) : ms[i].id # n
    /\ \A m \in 0..(n - 1) : \E i \in 1..Len(ms) : ms[i].id = m

\* SendValidation without the hasActiveDocument check
SendValidation_NoIdentityCheck(d) ==
  IF ~Truthy(Trim(d.question)) THEN Some(TypeQuestionMsg) ELSE Null

\* validation message of handleSendQuestion, Null when the query is accepted
SendValidation(d) ==
  IF ~hasActiveDocument(d) THEN Some(UploadFirstMsg)
  ELSE IF ~Truthy(Trim(d.question)) THEN Some(TypeQuestionMsg)
  ELSE Null

userMessage(d) ==
  [id |-> generateId(d.messages), role |-> "user", content |-> Trim(d.question), sources |-> Null]

\* handleSendQuestionCatch without setIsSending(false)
handleSendQuestionCatch_HoldsGuard(d, msg) ==
  [d EXCEPT !.messages = Append(d.messages,
              [id |-> generateId(d.messages), role |-> "assistant",
               content |-> WarnPrefix \o msg, sources |-> Null]),
            !.chatStatus = Empty]

\* handleSendQuestionBegin without the optimistic user Turn
handleSendQuestionBegin_NoUserTurn(d) ==
  [d EXCEPT !.error = Null, !.chatStatus = ThinkingMsg, !.isSending = TRUE,
            !.question = Empty]

\* handleSendQuestionCatch that reports the failure on the banner instead
handleSendQuestionCatch_Banner(d, msg) ==
  [d EXCEPT !.error = Some(msg), !.chatStatus = Empty, !.isSending = FALSE]

handleSendQuestionBegin(d) ==
  [d EXCEPT !.error = Null, !.chatStatus = ThinkingMsg, !.isSending = TRUE,
            !.messages = Append(d.messages, userMessage(d)),
            !.question = Empty]

\* ChatBody that sends the question as typed
ChatBody_Untrimmed(d) ==
  [question |-> d.question, document_id |-> d.documentId]

ChatBody(d) ==
  [question |-> Trim(d.question), document_id |-> d.documentId]

\* handleSendQuestionThen that shows the answer in place of the Transcript
handleSendQuestionThen_Replaces(d, data) ==
  [d EXCEPT !.messages =
              << [id |-> generateId(d.messages), role |-> "assistant",
                  content |-> OrElse(Trim(Coalesce(data.answer, Empty)),
                                     NoResponseMsg),
                  sources |-> Some(Coalesce(data.sources, << >>))] >>,
            !.chatStatus = Empty, !.isSending = FALSE]

handleSendQuestionThen(d, data) ==
  [d EXCEPT !.messages = Append(d.messages,
              [id |-> generateId(d.messages), role |-> "assistant",
               content |-> OrElse(Trim(Coalesce(data.answer, Empty)),
                                  NoResponseMsg),
               sources |-> Some(Coalesce(data.sources, << >>))]),
            !.chatStatus = Empty, !.isSending = FALSE]

handleSendQuestionCatch(d, msg) ==
  [d EXCEPT !.messages = Append(d.messages,
              [id |-> generateId(d.messages), role |-> "assistant",
               content |-> WarnPrefix \o msg, sources |-> Null]),
            !.chatStatus = Empty, !.isSending = FALSE]

handleSendQuestion ==
  /\ variant = "document"
  /\ UNCHANGED <<variant, yt>>
  /\ IF SendValidation(doc) # Null
       THEN /\ doc' = [doc EXCEPT !.error = SendValidation(doc)]
            /\ UNCHANGED calls
       ELSE /\ Len(calls) < MaxInFlight
            \* room for this question, its answer and the answers to come
            /\ Len(doc.messages) + Outstanding("chat") + 2 <= MaxTurns
            /\ doc' = handleSendQuestionBegin(doc)
            /\ calls' = Append(calls,
                 [kind |-> "chat", body |-> ChatBody(doc)])

switchSource(value) ==
  /\ variant = "document"
  /\ doc' = [doc EXCEPT !.sourceType = value, !.error = Null]
  /\ UNCHANGED <<variant, yt, calls>>

\* document page inputs (onChange); a cancelled file dialog selects null
setPdfFile(file) ==
  /\ variant = "document"
  /\ doc.sourceType = "pdf"
  /\ doc' = [doc EXCEPT !.pdfFile = file]
  /\ UNCHANGED <<variant, yt, calls>>

setTxtFile(file) ==
  /\ variant = "document"
  /\ doc.sourceType = "txt"
  /\ doc' = [doc EXCEPT !.txtFile = file]
  /\ UNCHANGED <<variant, yt, calls>>

setPlainText(t) ==
  /\ variant = "document"
  /\ doc.sourceType = "text"
  /\ doc' = [doc EXCEPT !.plainText = t]
  /\ UNCHANGED <<variant, yt, calls>>

setQuestion(q) ==
  /\ variant = "document"
  /\ doc' = [doc EXCEPT !.question = q]
  /\ UNCHANGED <<variant, yt, calls>>

\* the buttons' disabled attributes
UploadEnabled == ~doc.isUploading
SendEnabled == ~doc.isSending

\* ------------------------------------------------- network resolutions
\* Fallback that uses the fallback of callBackend for every endpoint
Fallback_Same(kind) ==
  CASE kind = "prepare" -> RequestFailedMsg
    [] kind = "ask" -> RequestFailedMsg
    [] kind = "upload" -> RequestFailedMsg
    [] kind = "chat" -> RequestFailedMsg

\* fallback of `(await response.text()) || "..."`, per endpoint
Fallback(kind) ==
  CASE kind = "prepare" -> RequestFailedMsg
    [] kind = "ask" -> RequestFailedMsg
    [] kind = "upload" -> UploadFailedMsg
    [] kind = "chat" -> ChatFailedMsg

\* bodies a 2xx response parses to, per endpoint
ResponseData(kind) ==
  CASE kind = "prepare" -> {[status |-> "ok"]}
    [] kind = "ask" -> [answer : Answers, sources : SourceLists]
    [] kind = "upload" -> {[document_id |-> DocIdSeq[doc.fileInputKey + 1]]}
    [] kind = "chat" -> {[answer |-> Null, sources |-> Null],
                         [answer |-> Some(<<"A", WS>>),
                          sources |-> Some(<< <<"s">> >>)]}

\* the catch and finally blocks of the handler suspended in calls[i]
Catch(i, msg) ==
  /\ calls' = RemoveAt(calls, i)
  /\ UNCHANGED variant
  /\ CASE calls[i].kind = "prepare" ->
            yt' = prepareVideoCatch(yt, msg) /\ UNCHANGED doc
       [] calls[i].kind = "ask" ->
            yt' = askVideoQuestionCatch(yt, msg) /\ UNCHANGED doc
       [] calls[i].kind = "upload" ->
            doc' = handleUploadCatch(doc, msg) /\ UNCHANGED yt
       [] calls[i].kind = "chat" ->
            doc' = handleSendQuestionCatch(doc, msg) /\ UNCHANGED yt

\* Then that drops the answer to a question asked of an earlier document
Then_DiscardsStale(i, data) ==
  /\ calls' = RemoveAt(calls, i)
  /\ UNCHANGED variant
  /\ CASE calls[i].kind = "prepare" ->
            yt' = prepareVideoThen(yt) /\ UNCHANGED doc
       [] calls[i].kind = "ask" ->
            yt' = askVideoQuestionThen(yt, data) /\ UNCHANGED doc
       [] calls[i].kind = "upload" ->
            doc' = handleUploadThen(doc, data) /\ UNCHANGED yt
       [] calls[i].kind = "chat" ->
            /\ doc' = IF calls[i].body.document_id = doc.documentId
                        THEN handleSendQuestionThen(doc, data)
                        ELSE [doc EXCEPT !.chatStatus = Empty,
                                         !.isSending = FALSE]
            /\ UNCHANGED yt

\* the rest of the try block and the finally block of the handler
Then(i, data) ==
  /\ calls' = RemoveAt(calls, i)
  /\ UNCHANGED variant
  /\ CASE calls[i].kind = "prepare" ->
            yt' = prepareVideoThen(yt) /\ UNCHANGED doc
       [] calls[i].kind = "ask" ->
            yt' = askVideoQuestionThen(yt, data) /\ UNCHANGED doc
       [] calls[i].kind = "upload" ->
            doc' = handleUploadThen(doc, data) /\ UNCHANGED yt
       [] calls[i].kind = "chat" ->
            doc' = handleSendQuestionThen(doc, data) /\ UNCHANGED yt

\* fetch() rejects: no HTTP response at all
FetchRejects(i) == Catch(i, NetworkErrorMsg)

\* fetch() resolves with a non-2xx response and response.text() with its body
TextResolves(i, text) == Catch(i, OrElse(text, Fallback(calls[i].kind)))

\* fetch() resolves with a 2xx response and response.json() rejects (the
\* body is not JSON)
JsonRejects(i) == Catch(i, JsonErrorMsg)

\* fetch() resolves with a 2xx response and response.json() with its body
JsonResolves(i, data) ==
  /\ data \in ResponseData(calls[i].kind)
  /\ Then(i, data)

Kinds == {"prepare", "ask", "upload", "chat"}

AllData == UNION {ResponseData(k) : k \in Kinds}

\* the request of calls[i] resolves, one way or another
Resolve(i) ==
  \/ FetchRejects(i)
  \/ \E text \in ErrorBodies : TextResolves(i, text)
  \/ JsonRejects(i)
  \/ \E data \in AllData : JsonResolves(i, data)

Network == \E i \in Idx : Resolve(i)

\* a request of the kind resolves
NetworkOf(k) == \E i \in Idx : calls[i].kind = k /\ Resolve(i)

Inputs ==
  \/ \E u \in Urls : setYoutubeUrl(u)
  \/ \E q \in Questions : setQuestionYt(q)
  \/ \E v \in SourceTypes : switchSource(v)
  \/ \E f \in {Null} \cup {Some(x) : x \in Files} : setPdfFile(f)
  \/ \E f \in {Null} \cup {Some(x) : x \in Files} : setTxtFile(f)
  \/ \E t \in PlainTexts : setPlainText(t)
  \/ \E q \in Questions : setQuestion(q)

\* the user clicks a button the page renders enabled
ClickPrepare == PrepareEnabled /\ prepareVideo
ClickAsk == AskEnabled /\ askVideoQuestion
ClickUpload == UploadEnabled /\ handleUpload
ClickSend == SendEnabled /\ handleSendQuestion

Next ==
  \/ Inputs
  \/ ClickPrepare
  \/ ClickAsk
  \/ ClickUpload
  \/ ClickSend
  \/ Network

Spec == Init /\ [][Next]_vars

\* every dispatched request eventually resolves: the transport answers or
\* fails each request, whatever else the user does meanwhile
SpecFair ==
  /\ Spec
  /\ WF_vars(NetworkOf("prepare"))
  /\ WF_vars(NetworkOf("ask"))
  /\ WF_vars(NetworkOf("upload"))
  /\ WF_vars(NetworkOf("chat"))

\* ================================================================ claims
\* C1: document page, buttons gated by isUploading / isSending: in every
\* reachable state at most one /upload request and at most one /chat
\* request is outstanding.
C1_OneRequestPerKindDocument ==
  variant = "document" =>
    Outstanding("upload") <= 1 /\ Outstanding("chat") <= 1

\* an upload and a question are outstanding together, one of each
C1_Witness ==
  /\ variant = "document"
  /\ Outstanding("upload") = 1
  /\ Outstanding("chat") = 1
  /\ doc.isUploading /\ doc.isSending

\* C2: session page, buttons gated by loading: in every reachable state at
\* most one /prepare request and at most one /ask request is outstanding.
C2_OneRequestPerKindSession ==
  variant = "session" =>
    Outstanding("prepare") <= 1 /\ Outstanding("ask") <= 1

\* C3: in both variants an operation invoked while a request of its kind is
\* outstanding dispatches no second request of that kind.
C3_NoSecondDispatch ==
  [][\A k \in Kinds :
       CountIn(calls, k) > 0 => CountIn(calls', k) <= CountIn(calls, k)]_vars

\* C4: the two kinds are independent: the in-flight flag of a kind stays set
\* for as long as a request of that kind is outstanding, whatever the other
\* kind begins or completes.
C4_FlagHeldWhileOutstanding ==
  /\ Outstanding("prepare") > 0 => yt.loading = "index"
  /\ Outstanding("ask") > 0 => yt.loading = "ask"
  /\ Outstanding("upload") > 0 => doc.isUploading
  /\ Outstanding("chat") > 0 => doc.isSending

\* C5: in every reachable state of either variant the status message and
\* the error message are never both non-empty.
C5_StatusErrorExclusive ==
  /\ ~(Truthy(yt.status) /\ Truthy(yt.error))
  /\ ~((Truthy(doc.uploadStatus) \/ Truthy(doc.chatStatus)) /\ doc.error # Null)

\* C6: document page: the step that completes an ingestion successfully
\* sets documentId to the identifier of that response (non-null, whatever
\* the earlier identity was) and leaves the Transcript empty.
C6_IngestSuccess ==
  [][\A i \in Idx : \A data \in ResponseData("upload") :
       (calls[i].kind = "upload" /\ JsonResolves(i, data)) =>
         /\ doc'.documentId = Some(data.document_id)
         /\ doc'.documentId # Null
         /\ doc'.messages = << >>]_vars

\* a second ingestion has replaced identity d1, against which a question is
\* still outstanding, by d2 and has emptied the Transcript
C6_Witness ==
  /\ doc.documentId = Some(<<"d2">>)
  /\ doc.messages = << >>
  /\ doc.uploadStatus = DocumentReadyMsg
  /\ \E i \in Idx : /\ calls[i].kind = "chat"
                    /\ calls[i].body.document_id = Some(<<"d1">>)

\* the steps in which an ingestion fails: validation, transport failure,
\* non-2xx response, unreadable 2xx body
UploadFails ==
  \/ handleUpload /\ UploadValidation(doc) # Null
  \/ \E i \in Idx :
       /\ calls[i].kind = "upload"
       /\ \/ FetchRejects(i)
          \/ \E text \in ErrorBodies : TextResolves(i, text)
          \/ JsonRejects(i)

\* C7: document page: a step in which an ingestion fails sets the banner
\* error and leaves documentId and the Transcript as they were; so does the
\* step that dispatches the ingestion, so that a failed ingestion has changed
\* neither.
C7_IngestFailureFrame ==
  [][/\ UploadFails =>
          /\ doc'.error # Null
          /\ doc'.documentId = doc.documentId
          /\ doc'.messages = doc.messages
     /\ handleUpload =>
          /\ doc'.documentId = doc.documentId
          /\ doc'.messages = doc.messages]_vars

\* a re-ingestion from Ready has failed: the fallback of /upload is on the
\* banner, the identity and the turns are still there
C7_Witness ==
  /\ doc.error = Some(UploadFailedMsg)
  /\ doc.documentId # Null
  /\ Len(doc.messages) >= 2
  /\ ~doc.isUploading

\* C8: document page: a query issued while documentId is empty sets the
\* banner error, dispatches no request, appends no Turn and does not set
\* isSending.
C8_QueryNeedsIdentity ==
  [][(handleSendQuestion /\ ~hasActiveDocument(doc)) =>
       /\ calls' = calls
       /\ doc'.messages = doc.messages
       /\ doc'.isSending = doc.isSending
       /\ doc'.error = Some(UploadFirstMsg)]_vars

\* a well-formed question was sent before any document was ingested
C8_Witness ==
  /\ variant = "document"
  /\ doc.documentId = Null
  /\ Truthy(Trim(doc.question))
  /\ doc.error = Some(UploadFirstMsg)
  /\ calls = << >> /\ doc.messages = << >> /\ ~doc.isSending

\* C9: in both variants a question that is empty after trimming is rejected
\* with a validation error and no query request is sent.
C9_BlankQuestionRejected ==
  [][/\ (askVideoQuestion /\ ~Truthy(Trim(yt.question))) =>
          calls' = calls /\ yt'.error = EnterBothMsg
     /\ (handleSendQuestion /\ ~Truthy(Trim(doc.question))) =>
          calls' = calls /\ doc'.error # Null]_vars

\* C10: document page: an accepted query transmits the trimmed question and
\* the documentId current at that moment, and appends a user Turn whose
\* content is the trimmed question.
C10_QueryPayload ==
  [][(handleSendQuestion /\ SendValidation(doc) = Null) =>
       /\ Len(calls') = Len(calls) + 1
       /\ calls'[Len(calls')].kind = "chat"
       /\ calls'[Len(calls')].body.question = Trim(doc.question)
       /\ calls'[Len(calls')].body.document_id = doc.documentId
       /\ Len(doc'.messages) = Len(doc.messages) + 1
       /\ doc'.messages[Len(doc'.messages)].role = "user"
       /\ doc'.messages[Len(doc'.messages)].content = Trim(doc.question)]_vars

\* the question typed as " b " is outstanding and on display as "b"
C10_Witness ==
  /\ \E i \in Idx : /\ calls[i].kind = "chat"
                    /\ calls[i].body.question = <<"b">>
                    /\ calls[i].body.document_id = doc.documentId
  /\ Len(doc.messages) > 0
  /\ doc.messages[Len(doc.messages)].role = "user"
  /\ doc.messages[Len(doc.messages)].content = <<"b">>

\* ------------------------------------------------ helpers of the claims
LastOf(ms) == ms[Len(ms)]

\* messages a catch block can receive for a request of the kind
FailureMsgs(kind) ==
  {NetworkErrorMsg, JsonErrorMsg} \cup {OrElse(t, Fallback(kind)) : t \in ErrorBodies}

\* the step in which the accepted query suspended in calls[i] fails with msg
ChatFailsWith(i, msg) == calls[i].kind = "chat" /\ Catch(i, msg)

\* C11 (as claimed): document page: when an accepted query fails, the
\* Transcript at completion is the Transcript at issue extended by two Turns,
\* so it ends with the user Turn of the query followed by the assistant Turn
\* that carries the error message; the banner error and documentId are
\* untouched.
C11_FailedQueryAddsTwoTurns ==
  [][\A i \in Idx : \A msg \in FailureMsgs("chat") :
       ChatFailsWith(i, msg) =>
         /\ Len(doc'.messages) >= 2
         /\ doc'.messages[Len(doc'.messages) - 1].role = "user"
         /\ doc'.messages[Len(doc'.messages) - 1].content = calls[i].body.question
         /\ LastOf(doc'.messages).role = "assistant"
         /\ LastOf(doc'.messages).content = WarnPrefix \o msg
         /\ doc'.error = doc.error
         /\ doc'.documentId = doc.documentId]_vars

\* C11 (amended): the step in which an accepted query fails appends exactly
\* one assistant Turn carrying the error message to the Transcript of that
\* moment and leaves the banner error and documentId untouched; that
\* Transcript ends with the user Turn of the query, unless a successful
\* ingestion has emptied it since the query was issued.
C11_FailedQueryAddsAssistantTurn ==
  [][\A i \in Idx : \A msg \in FailureMsgs("chat") :
       ChatFailsWith(i, msg) =>
         /\ Len(doc'.messages) = Len(doc.messages) + 1
         /\ SubSeq(doc'.messages, 1, Len(doc.messages)) = doc.messages
         /\ LastOf(doc'.messages).role = "assistant"
         /\ LastOf(doc'.messages).content = WarnPrefix \o msg
         /\ \/ doc.messages = << >>
            \/ /\ LastOf(doc.messages).role = "user"
               /\ LastOf(doc.messages).content = calls[i].body.question
         /\ doc'.error = doc.error
         /\ doc'.documentId = doc.documentId]_vars

\* /chat answered 500 with body "e": the Transcript is the question and the
\* error-bearing answer, no banner error, the identity is still there
C11_Witness ==
  /\ Len(doc.messages) = 2
  /\ doc.messages[1].role = "user"
  /\ doc.messages[1].content = <<"b">>
  /\ doc.messages[2].role = "assistant"
  /\ doc.messages[2].content = WarnPrefix \o <<"e">>
  /\ doc.error = Null
  /\ doc.documentId # Null
  /\ ~doc.isSending

\* C12 (as claimed): document page: in every reachable state every assistant
\* Turn is immediately preceded by the user Turn of its query.
C12_AnswerFollowsQuestion ==
  \A n \in 1..Len(doc.messages) :
    doc.messages[n].role = "assistant" =>
      n > 1 /\ doc.messages[n - 1].role = "user"

\* C12 (amended): in every reachable state every assistant Turn is
\* immediately preceded by a user Turn or is the first Turn of the Transcript
\* (a successful ingestion emptied the Transcript while its query was
\* outstanding); every user Turn is followed by an assistant Turn or is the
\* last Turn while its query is outstanding.
C12_AnswerFollowsQuestionOrLeads ==
  \A n \in 1..Len(doc.messages) :
    /\ doc.messages[n].role = "assistant" =>
         n = 1 \/ doc.messages[n - 1].role = "user"
    /\ doc.messages[n].role = "user" =>
         IF n = Len(doc.messages)
           THEN \E i \in Idx : /\ calls[i].kind = "chat"
                               /\ calls[i].body.question = doc.messages[n].content
           ELSE doc.messages[n + 1].role = "assistant"

\* a late answer leads the Transcript and a full question/answer pair
\* follows it
C12_Witness ==
  /\ Len(doc.messages) = 3
  /\ doc.messages[1].role = "assistant"
  /\ doc.messages[2].role = "user"
  /\ doc.messages[3].role = "assistant"

\* C13: when every dispatched request eventually resolves, every in-flight
\* flag that was set is eventually cleared, on the success path and on every
\* failure path (a flag that is clear again and again is one that never
\* stays set); the document page clears a flag exactly when a request of its
\* kind completes, once per begin, and the session page clears its indicator
\* at every completion.
C13_GuardReleased ==
  /\ []<>(~doc.isUploading)
  /\ []<>(~doc.isSending)
  /\ []<>(yt.loading = "null")
  /\ [][/\ (doc.isUploading /\ ~doc'.isUploading) <=>
              CountIn(calls', "upload") = CountIn(calls, "upload") - 1
        /\ (doc.isSending /\ ~doc'.isSending) <=>
              CountIn(calls', "chat") = CountIn(calls, "chat") - 1
        /\ (CountIn(calls', "prepare") < CountIn(calls, "prepare")
              \/ CountIn(calls', "ask") < CountIn(calls, "ask")) =>
              yt'.loading = "null"]_vars

\* a /chat failure was recorded and the next query was accepted: its user
\* Turn follows the error-bearing one and its request is outstanding
C13_Witness ==
  /\ Len(doc.messages) = 2
  /\ doc.messages[1].role = "assistant"
  /\ doc.messages[1].content = WarnPrefix \o ChatFailedMsg
  /\ doc.messages[2].role = "user"
  /\ doc.isSending
  /\ Outstanding("chat") = 1

\* the message a non-2xx response with the body text puts before the user
Shown(text, fallback) == IF text # Empty THEN text ELSE fallback

\* C14: for every endpoint, the step in which a non-2xx response arrives is
\* a failure whose user-visible message (banner of the session page, banner
\* of the document page for /upload, error-bearing assistant Turn for /chat)
\* is the body text when that is non-empty and otherwise "Request failed."
\* for /prepare and /ask, "Upload failed." for /upload and "Chat request
\* failed." for /chat.
C14_Non2xxMessage ==
  [][\A i \in Idx : \A text \in ErrorBodies :
       TextResolves(i, text) =>
         /\ calls[i].kind = "prepare" =>
              yt'.error = Shown(text, <<"Request failed.">>)
         /\ calls[i].kind = "ask" =>
              yt'.error = Shown(text, <<"Request failed.">>)
         /\ calls[i].kind = "upload" =>
              doc'.error = Some(Shown(text, <<"Upload failed.">>))
         /\ calls[i].kind = "chat" =>
              /\ LastOf(doc'.messages).role = "assistant"
              /\ LastOf(doc'.messages).content =
                   WarnPrefix \o Shown(text, <<"Chat request failed.">>)]_vars

\* /chat answered non-2xx with body "e", shown in the Transcript, and then
\* /upload answered non-2xx with an empty body, so the banner holds its
\* fallback
C14_Witness ==
  /\ doc.messages # << >>
  /\ LastOf(doc.messages).content = WarnPrefix \o <<"e">>
  /\ doc.error = Some(<<"Upload failed.">>)
  /\ calls = << >>

\* C15: a transport failure (fetch() rejects, no HTTP response) shows the
\* user the fixed fallback of the operation, as a non-2xx response with an
\* empty body does: "Request failed." for /prepare and /ask, "Upload
\* failed." for /upload, "Chat request failed." for /chat.
C15_TransportFallback ==
  [][\A i \in Idx :
       FetchRejects(i) =>
         /\ calls[i].kind = "prepare" => yt'.error = <<"Request failed.">>
         /\ calls[i].kind = "ask" => yt'.error = <<"Request failed.">>
         /\ calls[i].kind = "upload" => doc'.error = Some(<<"Upload failed.">>)
         /\ calls[i].kind = "chat" =>
              LastOf(doc'.messages).content =
                WarnPrefix \o <<"Chat request failed.">>]_vars

\* the steps in which an operation is rejected by its validation
ValidationFails ==
  \/ prepareVideo /\ ~Truthy(yt.youtubeUrl)
  \/ askVideoQuestion /\ ~AskValid(yt)
  \/ handleUpload /\ UploadValidation(doc) # Null
  \/ handleSendQuestion /\ SendValidation(doc) # Null

\* the steps in which a request of the kind fails: transport failure or
\* non-2xx response
RequestFails(k) ==
  \E i \in Idx :
    /\ calls[i].kind = k
    /\ \/ FetchRejects(i)
       \/ \E text \in ErrorBodies : TextResolves(i, text)

\* C16 (as claimed): a step in which an operation fails changes nothing but
\* the error slot and, for a failed document query, the Transcript: a
\* validation failure leaves everything else, status included, as it was,
\* and a backend or transport failure leaves identity, displayed answer and
\* sources and staged inputs as they were.
C16_FailureRestoresState ==
  [][/\ ValidationFails =>
          /\ yt' = [yt EXCEPT !.error = yt'.error]
          /\ doc' = [doc EXCEPT !.error = doc'.error]
     /\ \A k \in Kinds : RequestFails(k) =>
          /\ doc'.documentId = doc.documentId
          /\ yt'.answer = yt.answer /\ yt'.sources = yt.sources
          /\ yt'.youtubeUrl = yt.youtubeUrl /\ yt'.question = yt.question
          /\ doc'.sourceType = doc.sourceType
          /\ doc'.pdfFile = doc.pdfFile /\ doc'.txtFile = doc.txtFile
          /\ doc'.plainText = doc.plainText /\ doc'.question = doc.question
          /\ k # "chat" => doc'.messages = doc.messages]_vars

\* C16 (amended): a step in which an operation fails leaves the identity and
\* the staged inputs as they were and reports the failure (on the banner, or
\* for a document query in one appended assistant Turn), but it clears the
\* status of the operation instead of restoring it: a rejected upload
\* submission empties the upload status, a failed request empties the status
\* and releases its flag, and a failed session query also empties the answer
\* and the sources on display.  Nothing else changes in the step; the
\* question input that an accepted document query emptied stays empty.
C16_FailureFrame ==
  [][/\ (prepareVideo /\ ~Truthy(yt.youtubeUrl)) =>
          yt' = [yt EXCEPT !.error = PasteUrlFirstMsg] /\ UNCHANGED <<doc, calls>>
     /\ (askVideoQuestion /\ ~AskValid(yt)) =>
          yt' = [yt EXCEPT !.error = EnterBothMsg] /\ UNCHANGED <<doc, calls>>
     /\ (handleUpload /\ UploadValidation(doc) # Null) =>
          /\ doc' = [doc EXCEPT !.error = doc'.error, !.uploadStatus = Empty]
          /\ doc'.error # Null
          /\ UNCHANGED <<yt, calls>>
     /\ (handleSendQuestion /\ SendValidation(doc) # Null) =>
          /\ doc' = [doc EXCEPT !.error = doc'.error]
          /\ doc'.error # Null
          /\ UNCHANGED <<yt, calls>>
     /\ RequestFails("prepare") =>
          /\ yt' = [yt EXCEPT !.error = yt'.error, !.status = Empty,
                              !.loading = "null"]
          /\ Truthy(yt'.error)
          /\ UNCHANGED doc
     /\ RequestFails("ask") =>
          /\ yt' = [yt EXCEPT !.error = yt'.error, !.status = Empty,
                              !.loading = "null",
                              !.answer = Empty, !.sources = << >>]
          /\ Truthy(yt'.error)
          /\ UNCHANGED doc
     /\ RequestFails("upload") =>
          /\ doc' = [doc EXCEPT !.error = doc'.error, !.uploadStatus = Empty,
                                !.isUploading = FALSE]
          /\ doc'.error # Null
          /\ UNCHANGED yt
     /\ RequestFails("chat") =>
          /\ doc' = [doc EXCEPT !.messages = doc'.messages,
                                !.chatStatus = Empty, !.isSending = FALSE]
          /\ Len(doc'.messages) = Len(doc.messages) + 1
          /\ SubSeq(doc'.messages, 1, Len(doc.messages)) = doc.messages
          /\ UNCHANGED yt
     /\ (handleSendQuestion /\ SendValidation(doc) = Null) =>
          doc'.question = Empty]_vars

\* after an ingestion the upload of an empty PDF tab was rejected: the
\* identity and the TXT file staged in the other tab are still there, the
\* banner holds the validation message, and "Document ready" is gone
C16_Witness ==
  /\ doc.documentId = Some(<<"d1">>)
  /\ doc.sourceType = "pdf"
  /\ doc.pdfFile = Null
  /\ doc.txtFile # Null
  /\ doc.error = Some(SelectPdfMsg)
  /\ doc.uploadStatus = Empty
  /\ ~doc.isUploading

\* the step that completes an ingestion successfully
IngestSucceeds ==
  \E i \in Idx : \E data \in ResponseData("upload") :
    calls[i].kind = "upload" /\ JsonResolves(i, data)

\* C17: document page: across every step other than the successful
\* completion of an ingestion the Transcript before the step is a prefix of
\* the Transcript after it (no Turn removed, reordered or edited) and at
\* most one Turn is appended.
C17_TranscriptAppendOnly ==
  [][~IngestSucceeds =>
       /\ Len(doc'.messages) \in {Len(doc.messages), Len(doc.messages) + 1}
       /\ SubSeq(doc'.messages, 1, Len(doc.messages)) = doc.messages]_vars

\* three Turns were appended one by one since the last ingestion: a late
\* answer, the next question and its answer, each with the id it got when
\* it was appended
C17_Witness ==
  /\ Len(doc.messages) = 3
  /\ \A n \in 1..3 : doc.messages[n].id = n - 1
  /\ doc.messages[2].role = "user"
  /\ LastOf(doc.messages).content = <<"A">>
  /\ ~doc.isSending

\* C18: document page: the step in which a query resolves, with an answer
\* or with a failure, after a successful ingestion has replaced the
\* documentId it was dispatched against does not discard the response: it
\* appends the assistant Turn to the Transcript that ingestion emptied, and
\* leaves the new documentId in place.
C18_LateResponseApplied ==
  [][\A i \in Idx :
       (/\ calls[i].kind = "chat"
        /\ calls[i].body.document_id # doc.documentId
        /\ Resolve(i)) =>
         /\ doc.messages = << >>
         /\ Len(doc'.messages) = 1
         /\ doc'.messages[1].role = "assistant"
         /\ doc'.documentId = doc.documentId]_vars

\* the answer to a question asked of d1 is the only Turn of the Transcript
\* of d2
C18_Witness ==
  /\ doc.documentId = Some(<<"d2">>)
  /\ Len(doc.messages) = 1
  /\ doc.messages[1].role = "assistant"
  /\ doc.messages[1].content = <<"A">>
  /\ calls = << >>

\* the step in which the accepted session query suspended in calls[i] fails
\* with msg
AskFailsWith(i, msg) == calls[i].kind = "ask" /\ Catch(i, msg)

\* the step in which it succeeds with the response body data
AskSucceedsWith(i, data) == calls[i].kind = "ask" /\ JsonResolves(i, data)

\* what the session page shows for a field of the response that may be absent
Shows(field, absent) == IF field = Null THEN absent ELSE Unwrap(field)

\* C19 (as claimed): session page: the step in which an accepted query fails
\* empties the answer and the sources, clears the status and puts the
\* failure message on the banner; the step in which it succeeds shows the
\* answer and the sources of the response (empty when absent), clears the
\* status, and the banner is empty.
C19_AskOutcome ==
  [][\A i \in Idx :
       /\ \A msg \in FailureMsgs("ask") : AskFailsWith(i, msg) =>
            /\ yt'.answer = Empty /\ yt'.sources = << >>
            /\ yt'.status = Empty
            /\ yt'.error = msg
       /\ \A data \in ResponseData("ask") : AskSucceedsWith(i, data) =>
            /\ yt'.answer = Shows(data.answer, Empty)
            /\ yt'.sources = Shows(data.sources, << >>)
            /\ yt'.status = Empty
            /\ yt'.error = Empty]_vars

\* C19 (amended): as claimed for the failure; the step in which the query
\* succeeds shows the answer and the sources of the response (empty when
\* absent) and clears the status, and it leaves the banner as it is: empty
\* as the dispatch left it, unless another operation has failed or was
\* rejected while the query was outstanding.
C19_AskOutcomeKeepsBanner ==
  [][\A i \in Idx :
       /\ \A msg \in FailureMsgs("ask") : AskFailsWith(i, msg) =>
            /\ yt'.answer = Empty /\ yt'.sources = << >>
            /\ yt'.status = Empty
            /\ yt'.error = msg
       /\ \A data \in ResponseData("ask") : AskSucceedsWith(i, data) =>
            /\ yt'.answer = Shows(data.answer, Empty)
            /\ yt'.sources = Shows(data.sources, << >>)
            /\ yt'.status = Empty
            /\ yt'.error = yt.error]_vars

\* a query was answered while the banner showed the failure of /prepare:
\* the answer and the banner are on display together
C19_Witness ==
  /\ yt.answer = <<"A", WS>>
  /\ yt.sources = << <<"s">> >>
  /\ yt.status = Empty
  /\ yt.error = <<"e">>
  /\ yt.loading = "null"
  /\ calls = << >>

\* the form field of a source-type tab
FieldOf(tab) ==
  CASE tab = "pdf" -> "pdf_file"
    [] tab = "txt" -> "txt_file"
    [] tab = "text" -> "plain_text"

\* C20: document page: switching the source-type tab changes the active tab
\* and clears the banner error and nothing else, so the PDF file, the TXT
\* file and the pasted text staged in the tabs stay; an accepted upload
\* submits exactly one form field, the one of the active tab with what is
\* staged there (the pasted text trimmed), whatever the other tabs hold.
C20_TabsAndPayload ==
  [][/\ \A v \in SourceTypes : switchSource(v) =>
          /\ doc' = [doc EXCEPT !.sourceType = v, !.error = Null]
          /\ doc'.pdfFile = doc.pdfFile /\ doc'.txtFile = doc.txtFile
          /\ doc'.plainText = doc.plainText
          /\ UNCHANGED <<yt, calls>>
     /\ (handleUpload /\ UploadValidation(doc) = Null) =>
          /\ Len(calls') = Len(calls) + 1
          /\ LastOf(calls').kind = "upload"
          /\ Cardinality(LastOf(calls').body) = 1
          /\ \A entry \in LastOf(calls').body :
               entry[1] = FieldOf(doc.sourceType)
          /\ doc.sourceType = "pdf" =>
               LastOf(calls').body = {<<"pdf_file", Unwrap(doc.pdfFile)>>}
          /\ doc.sourceType = "txt" =>
               LastOf(calls').body = {<<"txt_file", Unwrap(doc.txtFile)>>}
          /\ doc.sourceType = "text" =>
               LastOf(calls').body = {<<"plain_text", Trim(doc.plainText)>>}]_vars

\* the pasted text " t" was submitted trimmed and alone while a PDF file and
\* a TXT file are staged in the other tabs
C20_Witness ==
  /\ doc.sourceType = "text"
  /\ doc.pdfFile # Null /\ doc.txtFile # Null
  /\ doc.plainText = <<WS, "t">>
  /\ \E i \in Idx : /\ calls[i].kind = "upload"
                    /\ calls[i].body = {<<"plain_text", <<"t">>>>}

\* the status messages that report an operation in progress
ProgressMsgs == {<<"Indexing video...">>, <<"Thinking...">>,
                 <<"Uploading and indexing...">>}

\* C21: in every reachable state of either page in which no request is
\* outstanding, the in-flight indicators are clear (loading is null,
\* isUploading and isSending are false) and no status slot shows a progress
\* message ("Indexing video...", "Thinking...", "Uploading and
\* indexing..."), in whatever order overlapping operations started and
\* resolved.
C21_QuiescentIsIdle ==
  calls = << >> =>
    /\ yt.loading = "null"
    /\ ~doc.isUploading /\ ~doc.isSending
    /\ yt.status \notin ProgressMsgs
    /\ doc.uploadStatus \notin ProgressMsgs
    /\ doc.chatStatus \notin ProgressMsgs

\* a query and a re-ingestion overlapped, the ingestion succeeded first and
\* the query then failed in transport: nothing is outstanding, both flags
\* are clear, the upload status reports the document and the chat status is
\* empty
C21_Witness ==
  /\ calls = << >>
  /\ doc.documentId = Some(<<"d2">>)
  /\ Len(doc.messages) = 1
  /\ doc.messages[1].content = WarnPrefix \o NetworkErrorMsg
  /\ doc.uploadStatus = DocumentReadyMsg
  /\ doc.chatStatus = Empty
  /\ ~doc.isUploading /\ ~doc.isSending

====
